---- MODULE Spec2Model ----
(***************************************************************************)
(* Model of @yacobolo/datastar-prop: the property-binding plugin           *)
(* (src/src/index.ts) and the live signal tree viewer                      *)
(* (src/unnamed/part_002, class LiveSignals).                              *)
(*                                                                         *)
(* Strings are sequences of one-character strings, so that kebabToCamel    *)
(* and the path routines work on characters as the code does.              *)
(* JavaScript values are pairs <<tag, n>>; a value tagged "ref" names an    *)
(* object of the heap, which gives arrays and objects reference identity.  *)
(***************************************************************************)
EXTENDS Integers, Sequences, FiniteSets, TLC

\* ------------------------------------------------------------------------
\* Bounds of the model
\* ------------------------------------------------------------------------

\* longest string handed to kebabToCamel in the string specification
MaxStrLen == 4

\* number of heap objects (arrays or objects) a bound value may reach
NObj == 2

\* total number of entries (array items, object properties) in the heap
\* deepRead is run on
MaxEntries == 3

\* the same for the signal store of a binding
PlugEntries == 2

\* ------------------------------------------------------------------------
\* State
\* ------------------------------------------------------------------------

VARIABLES
    kstr,        \* string specification: the argument of kebabToCamel
    kout,        \* string specification: results, <<>> / <<r1>> / <<r1, r2>>
    drVal,       \* deepRead specification: the value deepRead is called on
    drState,     \* deepRead specification: the running deepRead
    drPc,        \* deepRead specification: "idle", "running" or "done"
    heap,        \* the containers held by the signal store
    root,        \* the value the bound expression evaluates to
    key,         \* ctx.key of the binding, <<>> when absent
    copy,        \* which definition of propPlugin of index.ts is bundled
    props,       \* the own properties of the target element
    applied,     \* apply() has been called for the binding
    effects,     \* number of effect() calls made by apply
    registered,  \* the host still holds the effect
    cleanup,     \* what apply returned: "none" or "effect" (its disposer)
    disposals,   \* number of calls of the returned disposer
    deps,        \* properties read by the effect's last run
    pending,     \* a dependency changed since the last run
    cyc          \* the last update cycle: outcome, value and element events

plugVars == <<heap, root, key, copy, props, applied, effects, registered,
              cleanup, disposals, deps, pending, cyc>>

strVars == <<kstr, kout>>

drVars == <<drVal, drState, drPc>>

VARIABLES
    signals,          \* this.signals: the stored snapshot
    previousSignals,  \* this.previousSignals: the baseline string
    expandedPaths,    \* this.expandedPaths
    changedPaths,     \* this.changedPaths: path -> Date.now() - timestamp
    collapsed,        \* this.collapsed
    isFirstLoad,      \* this.isFirstLoad
    connected,        \* the element is in the document
    intervals,        \* number of live setInterval timers of the component
    pollsDue,         \* interval callbacks due at the current instant
    timers,           \* time left on each pending setTimeout clear
    calls             \* updateSignals() calls made directly, without the timers

viewVars == <<signals, previousSignals, expandedPaths, changedPaths, collapsed,
              isFirstLoad, connected, intervals, pollsDue, timers, calls>>

\* ------------------------------------------------------------------------
\* Characters and strings
\* ------------------------------------------------------------------------

Alphabet == {"-", "a", "b", "A", "1"}

LowerLetters ==
    <<"a", "b", "c", "d", "e", "f", "g", "h", "i", "j", "k", "l", "m",
      "n", "o", "p", "q", "r", "s", "t", "u", "v", "w", "x", "y", "z">>

UpperLetters ==
    <<"A", "B", "C", "D", "E", "F", "G", "H", "I", "J", "K", "L", "M",
      "N", "O", "P", "Q", "R", "S", "T", "U", "V", "W", "X", "Y", "Z">>

\* the character class [a-z] of the regular expression
IsLowerLetter(c) == \E k \in 1..26 : LowerLetters[k] = c

\* a toUpperCase that leaves the letter as it is
toUpperCaseKeepsCase(c) == c

\* String.prototype.toUpperCase on one character
toUpperCase(c) ==
    IF IsLowerLetter(c)
    THEN UpperLetters[CHOOSE k \in 1..26 : LowerLetters[k] = c]
    ELSE c

RECURSIVE StringsUpTo(_)
StringsUpTo(n) ==
    IF n = 0 THEN {<<>>}
    ELSE LET S == StringsUpTo(n - 1)
         IN  S \cup {Append(s, c) : s \in {t \in S : Len(t) = n - 1}, c \in Alphabet}

\* str.replace(/-([a-z])/g, (_, c) => c.toUpperCase()), scanning from
\* position i: a match consumes two characters and the scan resumes after it
RECURSIVE ReplaceFrom(_, _)
ReplaceFrom(str, i) ==
    IF i > Len(str) THEN <<>>
    ELSE IF str[i] = "-" /\ i + 1 <= Len(str) /\ IsLowerLetter(str[i + 1])
         THEN <<toUpperCase(str[i + 1])>> \o ReplaceFrom(str, i + 2)
         ELSE <<str[i]>> \o ReplaceFrom(str, i + 1)

\* the same replacement without the g flag: only the first match is replaced
RECURSIVE ReplaceFirstFrom(_, _)
ReplaceFirstFrom(str, i) ==
    IF i > Len(str) THEN <<>>
    ELSE IF str[i] = "-" /\ i + 1 <= Len(str) /\ IsLowerLetter(str[i + 1])
         THEN <<toUpperCase(str[i + 1])>> \o SubSeq(str, i + 2, Len(str))
         ELSE <<str[i]>> \o ReplaceFirstFrom(str, i + 1)

kebabToCamelFirstMatchOnly(str) == ReplaceFirstFrom(str, 1)

kebabToCamel(str) == ReplaceFrom(str, 1)

\* ------------------------------------------------------------------------
\* JavaScript values and the heap of containers
\* ------------------------------------------------------------------------

Num(n) == <<"num", n>>
Null == <<"null", 0>>
Undefined == <<"undef", 0>>
RefTo(r) == <<"ref", r>>

Ref == 1..NObj

\* typeof v === "object" && v !== null: the value is an array or an object
IsContainer(v) == v[1] = "ref"

\* JavaScript truthiness of a value
Truthy(v) ==
    CASE v[1] = "ref" -> TRUE
      [] v[1] = "num" -> v[2] # 0
      [] OTHER -> FALSE

Decimal == <<"0", "1", "2", "3", "4", "5", "6", "7", "8", "9">>

\* the property name of array index i (0-based), as Object.keys reports it
IndexKey(i) == <<Decimal[i + 1]>>

ObjectKeys == <<(<<"a">>), (<<"b", "-", "c">>), (<<"d">>), (<<"e">>)>>

\* values stored in a container: one scalar or a reference to any container
EntryVals == {Num(1)} \cup {RefTo(r) : r \in Ref}

RECURSIVE SeqsOfLen(_, _)
SeqsOfLen(S, n) ==
    IF n = 0 THEN {<<>>}
    ELSE {Append(s, x) : s \in SeqsOfLen(S, n - 1), x \in S}

\* a container: an array (keys are its indices) or a plain object, with its
\* own enumerable properties in Object.keys order
MkContainer(isArr, vals) ==
    [arr  |-> isArr,
     keys |-> [k \in 1..Len(vals) |-> IF isArr THEN IndexKey(k - 1) ELSE ObjectKeys[k]],
     vals |-> vals]

ContainersUpTo(n) ==
    {MkContainer(isArr, vals) :
        isArr \in BOOLEAN, vals \in UNION {SeqsOfLen(EntryVals, k) : k \in 0..n}}

\* every heap of k containers holding at most budget entries in total
RECURSIVE HeapsOf(_, _)
HeapsOf(k, budget) ==
    IF k = 0 THEN {<<>>}
    ELSE UNION {{Append(h, c) : h \in HeapsOf(k - 1, budget - Len(c.vals))} :
                    c \in ContainersUpTo(budget)}

Heaps == HeapsOf(NObj, MaxEntries)

SignalHeaps == HeapsOf(NObj, PlugEntries)

\* the containers reachable from value v through the heap h
RECURSIVE ReachFrom(_, _, _)
ReachFrom(h, frontier, found) ==
    IF frontier = {} THEN found
    ELSE LET next == {r \in Ref : \E q \in frontier : \E k \in 1..Len(h[q].vals) :
                                    h[q].vals[k] = RefTo(r)} \ found
         IN  ReachFrom(h, next, found \cup next)

Reachable(h, v) ==
    IF IsContainer(v) THEN ReachFrom(h, {v[2]}, {v[2]}) ELSE {}

\* every property (container, key) reachable from v
ReachableProps(h, v) ==
    UNION {{<<r, h[r].keys[k]>> : k \in 1..Len(h[r].vals)} : r \in Reachable(h, v)}

\* ------------------------------------------------------------------------
\* deepRead (src/src/index.ts), one step of the recursion at a time
\* ------------------------------------------------------------------------

\* the state of one deepRead: the call stack (container being iterated and
\* the position of the iteration), the WeakSet seen, the containers
\* descended into in order, and the properties read
NoRead == [stack |-> <<>>, seen |-> {}, log |-> <<>>, reads |-> {}]

\* deepRead(obj, seen) up to the start of the iteration: a container not yet
\* seen is added to seen and its iteration begins; anything else returns
DeepReadCallNoSeenCheck(h, st, obj) ==
    IF IsContainer(obj)
    THEN [st EXCEPT !.seen = @ \cup {obj[2]},
                    !.log = Append(@, obj[2]),
                    !.stack = Append(@, [obj |-> obj[2], i |-> 1])]
    ELSE st

DeepReadCall(h, st, obj) ==
    IF IsContainer(obj)
    THEN IF obj[2] \in st.seen THEN st
         ELSE [st EXCEPT !.seen = @ \cup {obj[2]},
                         !.log = Append(@, obj[2]),
                         !.stack = Append(@, [obj |-> obj[2], i |-> 1])]
    ELSE st

\* one turn of the innermost for loop: read the next item or key and call
\* deepRead on it, or return when the iteration is over
DeepReadStep(h, st) ==
    LET n == Len(st.stack)
        f == st.stack[n]
        c == h[f.obj]
    IN  IF f.i > Len(c.vals)
        THEN [st EXCEPT !.stack = SubSeq(@, 1, n - 1)]
        ELSE DeepReadCall(h,
                 [st EXCEPT !.stack[n].i = f.i + 1,
                            !.reads = @ \cup {<<f.obj, c.keys[f.i]>>}],
                 c.vals[f.i])

RECURSIVE DeepReadRun(_, _)
DeepReadRun(h, st) ==
    IF st.stack = <<>> THEN st ELSE DeepReadRun(h, DeepReadStep(h, st))

\* a deepRead that returns without iterating arrays
deepReadSkipsArrays(h, obj) ==
    IF IsContainer(obj) /\ h[obj[2]].arr
    THEN [NoRead EXCEPT !.seen = {obj[2]}, !.log = <<obj[2]>>]
    ELSE DeepReadRun(h, DeepReadCall(h, NoRead, obj))

\* deepRead(obj) with a fresh WeakSet, run to completion
deepRead(h, obj) == DeepReadRun(h, DeepReadCall(h, NoRead, obj))

\* ------------------------------------------------------------------------
\* The property-bind plugin (src/src/index.ts)
\* ------------------------------------------------------------------------

\* number of times the model calls the disposer returned by apply
MaxDisposals == 2

NoKey == <<>>

KeyColorConfig == <<"c", "o", "l", "o", "r", "-", "c", "o", "n", "f", "i", "g">>

PropColorConfig == <<"c", "o", "l", "o", "r", "C", "o", "n", "f", "i", "g">>

Keys == {NoKey, KeyColorConfig}

RequestUpdateName == <<"r", "e", "q", "u", "e", "s", "t", "U", "p", "d", "a", "t", "e">>

\* a function value, as typeof reports it
Fn == <<"fn", 0>>

RootVals == {Num(1), Null, Undefined} \cup {RefTo(r) : r \in Ref}

\* the effect's dependency on the signal the expression reads
RootDep == <<0, <<"$">>>>

NoCycle == [kind |-> "none", value |-> Undefined, events |-> <<>>, propagated |-> FALSE]

\* element[propName] = value
Assign(pr, name, v) ==
    [n \in DOMAIN pr \cup {name} |-> IF n = name THEN v ELSE pr[n]]

HasRequestUpdate(pr) ==
    RequestUpdateName \in DOMAIN pr /\ pr[RequestUpdateName] = Fn

\* setProperty without the requestUpdate call
setPropertyNoNotify(el, propName, value) ==
    [props  |-> Assign(el.props, propName, value),
     events |-> Append(el.events, <<"set", propName, value>>)]

\* setProperty(el, propName, value): el is the element's properties and the
\* events of the cycle so far
setProperty(el, propName, value) ==
    LET assigned == Assign(el.props, propName, value)
        ev == Append(el.events, <<"set", propName, value>>)
    IN  [props  |-> assigned,
         events |-> IF HasRequestUpdate(assigned)
                    THEN Append(ev, <<"requestUpdate", propName, Undefined>>)
                    ELSE ev]

\* the multi-property branch assigning the first entry only
SetFirstEntryOnly(el, c, i) ==
    IF i > Len(c.vals) THEN el
    ELSE setProperty(el, c.keys[i], c.vals[i])

\* for (const [propName, propValue] of Object.entries(value)) setProperty(...)
RECURSIVE SetEntries(_, _, _)
\* the multi-property branch passing over the entries whose value is a scalar
SetEntriesSkipsScalars(el, c, i) ==
    IF i > Len(c.vals) THEN el
    ELSE SetEntries(IF IsContainer(c.vals[i]) THEN setProperty(el, c.keys[i], c.vals[i]) ELSE el,
                    c, i + 1)

\* the multi-property branch converting each entry's name with kebabToCamel
SetEntriesCamelNames(el, c, i) ==
    IF i > Len(c.vals) THEN el
    ELSE SetEntries(setProperty(el, kebabToCamel(c.keys[i]), c.vals[i]), c, i + 1)

SetEntries(el, c, i) ==
    IF i > Len(c.vals) THEN el
    ELSE SetEntries(setProperty(el, c.keys[i], c.vals[i]), c, i + 1)

\* the multi-property branch without its guard against arrays
assignValueArraysToo(h, k, el, value) ==
    IF k # NoKey
    THEN setProperty(el, kebabToCamel(k), value)
    ELSE IF Truthy(value) /\ IsContainer(value)
         THEN SetEntries(el, h[value[2]], 1)
         ELSE el

\* the single-property branch using the key as written
assignValueRawKey(h, k, el, value) ==
    IF k # NoKey
    THEN setProperty(el, k, value)
    ELSE IF Truthy(value) /\ IsContainer(value) /\ ~h[value[2]].arr
         THEN SetEntries(el, h[value[2]], 1)
         ELSE el

\* the body of update after deepRead: if (key) {...} else {...}
assignValue(h, k, el, value) ==
    IF k # NoKey
    THEN setProperty(el, kebabToCamel(k), value)
    ELSE IF Truthy(value) /\ IsContainer(value) /\ ~h[value[2]].arr
         THEN SetEntries(el, h[value[2]], 1)
         ELSE el

\* update() resetting the bound property when rx() throws
updateResetsOnThrow(cp, h, k, pr, value, throws) ==
    IF throws
    THEN [props |-> IF k # NoKey THEN Assign(pr, kebabToCamel(k), Undefined) ELSE pr,
          deps  |-> {RootDep},
          cyc   |-> [kind |-> "threw", value |-> Undefined, events |-> <<>>,
                     propagated |-> (cp = 1)]]
    ELSE LET el == assignValue(h, k, [props |-> pr, events |-> <<>>], value)
         IN  [props |-> el.props,
              deps  |-> {RootDep} \cup deepRead(h, value).reads,
              cyc   |-> [kind |-> "ok", value |-> value, events |-> el.events,
                         propagated |-> FALSE]]

\* one run of update() of definition cp of the plugin: rx() either throws or
\* returns value. The first definition (lines 100-119) lets the exception
\* leave update; the second (lines 258-288) catches it and returns
update(cp, h, k, pr, value, throws) ==
    IF throws
    THEN [props |-> pr,
          deps  |-> {RootDep},
          cyc   |-> [kind |-> "threw", value |-> Undefined, events |-> <<>>,
                     propagated |-> (cp = 1)]]
    ELSE LET el == assignValue(h, k, [props |-> pr, events |-> <<>>], value)
         IN  [props |-> el.props,
              deps  |-> {RootDep} \cup deepRead(h, value).reads,
              cyc   |-> [kind |-> "ok", value |-> value, events |-> el.events,
                         propagated |-> FALSE]]

PluginIdle ==
    /\ heap = <<>> /\ root = Undefined /\ key = NoKey /\ copy = 0
    /\ props = <<>> /\ applied = FALSE /\ effects = 0 /\ registered = FALSE
    /\ cleanup = "none" /\ disposals = 0 /\ deps = {} /\ pending = FALSE
    /\ cyc = NoCycle

StrIdle == kstr = <<>> /\ kout = <<>>

DeepReadIdle == drVal = Undefined /\ drState = NoRead /\ drPc = "idle"

\* a binding about to be applied: some signal store, some expression
\* value, a key or none, an element with or without requestUpdate
PluginInit ==
    /\ heap \in SignalHeaps
    /\ root \in RootVals
    /\ key \in Keys
    /\ copy \in {1, 2}
    /\ props \in {<<>>, Assign(<<>>, RequestUpdateName, Fn)}
    /\ applied = FALSE /\ effects = 0 /\ registered = FALSE
    /\ cleanup = "none" /\ disposals = 0 /\ deps = {} /\ pending = FALSE
    /\ cyc = NoCycle

\* the element, the effect's read set and the record of the cycle after a
\* run u of update
SetCycle(u) ==
    /\ props' = u.props
    /\ deps' = u.deps
    /\ cyc' = u.cyc

\* apply() returning nothing instead of the effect's disposer
applyReturnsNothing(cp) == "none"

\* what apply() returns: return effect(update) / return cleanup
applyReturns(cp) == "effect"

\* apply({el, key, rx}): effect(update) registers the effect and the host
\* runs update once; apply returns the effect's disposer
Apply ==
    /\ ~applied
    /\ \E throws \in BOOLEAN :
        SetCycle(update(copy, heap, key, props, root, throws))
    /\ applied' = TRUE
    /\ effects' = effects + 1
    /\ registered' = TRUE
    /\ cleanup' = applyReturns(copy)
    /\ pending' = FALSE
    /\ UNCHANGED <<heap, root, key, copy, disposals, strVars, drVars, viewVars>>

\* the host re-invokes update because a property read in the prior run
\* changed; rx() throws or returns
RerunWith(throws) ==
    /\ registered /\ pending
    /\ SetCycle(update(copy, heap, key, props, root, throws))
    /\ pending' = FALSE
    /\ UNCHANGED <<heap, root, key, copy, applied, effects, registered, cleanup,
                   disposals, strVars, drVars, viewVars>>

Rerun == \E throws \in BOOLEAN : RerunWith(throws)

\* a nested signal is written in place: container r, entry i gets value v
SignalSet ==
    \E r \in Ref : \E i \in 1..Len(heap[r].vals) : \E v \in EntryVals :
        /\ applied
        /\ heap[r].vals[i] # v
        /\ heap' = [heap EXCEPT ![r].vals[i] = v]
        /\ pending' = (pending \/ (registered /\ <<r, heap[r].keys[i]>> \in deps))
        /\ UNCHANGED <<root, key, copy, props, applied, effects, registered,
                       cleanup, disposals, deps, cyc, strVars, drVars, viewVars>>

\* the signal the expression reads is replaced
RootSet ==
    \E v \in RootVals :
        /\ applied
        /\ root # v
        /\ root' = v
        /\ pending' = (pending \/ (registered /\ RootDep \in deps))
        /\ UNCHANGED <<heap, key, copy, props, applied, effects, registered,
                       cleanup, disposals, deps, cyc, strVars, drVars, viewVars>>

\* the caller invokes what apply returned; the effect's disposer drops the
\* effect, and does nothing when the effect is already dropped
Dispose ==
    /\ applied
    /\ disposals < MaxDisposals
    /\ disposals' = disposals + 1
    /\ IF cleanup = "effect"
       THEN registered' = FALSE /\ deps' = {} /\ pending' = FALSE
       ELSE UNCHANGED <<registered, deps, pending>>
    /\ UNCHANGED <<heap, root, key, copy, props, applied, effects, cleanup,
                   cyc, strVars, drVars, viewVars>>

\* ------------------------------------------------------------------------
\* kebabToCamel and deepRead on their own
\* ------------------------------------------------------------------------

\* kebabToCamel(str)
KebabOnce ==
    /\ Len(kout) = 0
    /\ kout' = <<kebabToCamel(kstr)>>
    /\ UNCHANGED <<kstr, drVars, plugVars, viewVars>>

\* kebabToCamel(kebabToCamel(str))
KebabTwice ==
    /\ Len(kout) = 1
    /\ kout' = Append(kout, kebabToCamel(kout[1]))
    /\ UNCHANGED <<kstr, drVars, plugVars, viewVars>>

\* deepRead(value): the outermost call, with a fresh WeakSet
DeepReadStart ==
    /\ drPc = "idle"
    /\ drState' = DeepReadCall(heap, NoRead, drVal)
    /\ drPc' = "running"
    /\ UNCHANGED <<drVal, strVars, plugVars, viewVars>>

\* one turn of the innermost loop
DeepReadIterate ==
    /\ drPc = "running"
    /\ drState.stack # <<>>
    /\ drState' = DeepReadStep(heap, drState)
    /\ UNCHANGED <<drVal, drPc, strVars, plugVars, viewVars>>

\* the outermost call returns
DeepReadReturn ==
    /\ drPc = "running"
    /\ drState.stack = <<>>
    /\ drPc' = "done"
    /\ UNCHANGED <<drVal, drState, strVars, plugVars, viewVars>>

\* ------------------------------------------------------------------------
\* The live signal tree viewer (src/unnamed/part_002, class LiveSignals)
\* ------------------------------------------------------------------------

\* A parsed JSON value: t is its kind, n the number of a scalar, k and v the
\* keys and values of a container in Object.keys order (k of an array are
\* its indices). JUndefined stands for a missing property.
JNum(n) == [t |-> "number", n |-> n, k |-> <<>>, v |-> <<>>]
JNull == [t |-> "null", n |-> 0, k |-> <<>>, v |-> <<>>]
JUndefined == [t |-> "undefined", n |-> 0, k |-> <<>>, v |-> <<>>]
JArr(items) ==
    [t |-> "array", n |-> 0, k |-> [i \in 1..Len(items) |-> IndexKey(i - 1)], v |-> items]
JObj(names, vals) == [t |-> "object", n |-> 0, k |-> names, v |-> vals]

\* typeof x === 'object' && x !== null
JIsContainer(x) == x.t \in {"array", "object"}

\* Object.keys(x || {})
JKeys(x) == IF JIsContainer(x) THEN x.k ELSE <<>>

\* x?.[key]
JGet(x, name) ==
    IF JIsContainer(x) /\ \E i \in 1..Len(x.k) : x.k[i] = name
    THEN x.v[CHOOSE i \in 1..Len(x.k) : x.k[i] = name]
    ELSE JUndefined

RECURSIVE JoinWith(_, _)
JoinWith(parts, sep) ==
    IF Len(parts) = 0 THEN <<>>
    ELSE IF Len(parts) = 1 THEN parts[1]
    ELSE parts[1] \o sep \o JoinWith(Tail(parts), sep)

\* JSON.stringify(x) for a parsed value, character by character
RECURSIVE JSONstringify(_)
JSONstringify(x) ==
    CASE x.t = "number" -> <<Decimal[x.n + 1]>>
      [] x.t = "null" -> <<"n", "u", "l", "l">>
      [] x.t = "array" ->
            <<"[">> \o JoinWith([i \in 1..Len(x.v) |-> JSONstringify(x.v[i])], <<",">>) \o <<"]">>
      [] x.t = "object" ->
            <<"{">> \o JoinWith([i \in 1..Len(x.v) |->
                          <<"\"">> \o x.k[i] \o <<"\"", ":">> \o JSONstringify(x.v[i])], <<",">>)
                    \o <<"}">>
      [] OTHER -> <<>>

\* str.split(sep)[0]: the part of str before the first sep
RECURSIVE BeforeFirst(_, _)
BeforeFirst(str, sep) ==
    IF Len(str) = 0 \/ str[1] = sep THEN <<>>
    ELSE <<str[1]>> \o BeforeFirst(Tail(str), sep)

\* currentPath.split('.')[0].split('[')[0]
RootOf(currentPath) == BeforeFirst(BeforeFirst(currentPath, "."), "[")

\* str.startsWith(prefix)
startsWith(str, prefix) ==
    Len(prefix) <= Len(str) /\ SubSeq(str, 1, Len(prefix)) = prefix

\* `${currentPath}[${i}]`
IndexPath(currentPath, i) == currentPath \o <<"[">> \o IndexKey(i) \o <<"]">>

\* currentPath ? `${currentPath}.${key}` : key
KeyPath(currentPath, name) ==
    IF currentPath # <<>> THEN currentPath \o <<".">> \o name ELSE name

\* new Set([...Object.keys(oldVal || {}), ...Object.keys(newVal)]) in
\* insertion order
RECURSIVE Dedup(_, _)
Dedup(s, acc) ==
    IF Len(s) = 0 THEN acc
    ELSE Dedup(Tail(s), IF \E i \in 1..Len(acc) : acc[i] = s[1] THEN acc ELSE Append(acc, s[1]))

AllKeys(oldVal, newVal) == Dedup(JKeys(oldVal) \o JKeys(newVal), <<>>)

\* a mark that takes the whole path for the root
MarkPathAsRoot(acc, currentPath) ==
    [changes |-> acc.changes \cup {currentPath},
     roots   |-> acc.roots \cup {currentPath}]

\* newChanges.set(currentPath, timestamp); changedRoots.add(root)
Mark(acc, currentPath) ==
    [changes |-> acc.changes \cup {currentPath},
     roots   |-> acc.roots \cup {RootOf(currentPath)}]

\* check(oldVal, newVal, currentPath) of detectChanges; acc carries
\* newChanges (its keys) and changedRoots. CheckEach runs check over the
\* keys ks from position i on, pairing by index for arrays and by key for
\* objects
RECURSIVE Check(_, _, _, _), CheckEach(_, _, _, _, _, _)

\* a check that marks a scalar whether or not it differs from the old value
\* a check that pairs array items but never marks the array itself
CheckIgnoresArrayLength(oldVal, newVal, currentPath, acc) ==
    IF ~JIsContainer(newVal)
    THEN IF oldVal # newVal THEN Mark(acc, currentPath) ELSE acc
    ELSE IF newVal.t = "array"
         THEN CheckEach(oldVal, newVal, currentPath, newVal.k, 1, acc)
         ELSE CheckEach(oldVal, newVal, currentPath, AllKeys(oldVal, newVal), 1, acc)

CheckMarksEveryScalar(oldVal, newVal, currentPath, acc) ==
    IF ~JIsContainer(newVal)
    THEN Mark(acc, currentPath)
    ELSE IF newVal.t = "array"
         THEN CheckEach(oldVal, newVal, currentPath, newVal.k, 1,
                  IF oldVal.t # "array" \/ Len(oldVal.v) # Len(newVal.v)
                  THEN Mark(acc, currentPath) ELSE acc)
         ELSE CheckEach(oldVal, newVal, currentPath, AllKeys(oldVal, newVal), 1, acc)

Check(oldVal, newVal, currentPath, acc) ==
    IF ~JIsContainer(newVal)
    THEN IF oldVal # newVal THEN Mark(acc, currentPath) ELSE acc
    ELSE IF newVal.t = "array"
         THEN CheckEach(oldVal, newVal, currentPath, newVal.k, 1,
                  IF oldVal.t # "array" \/ Len(oldVal.v) # Len(newVal.v)
                  THEN Mark(acc, currentPath) ELSE acc)
         ELSE CheckEach(oldVal, newVal, currentPath, AllKeys(oldVal, newVal), 1, acc)

CheckEach(oldVal, newVal, currentPath, ks, i, acc) ==
    IF i > Len(ks) THEN acc
    ELSE CheckEach(oldVal, newVal, currentPath, ks, i + 1,
             Check(JGet(oldVal, ks[i]), JGet(newVal, ks[i]),
                   IF newVal.t = "array" THEN IndexPath(currentPath, i - 1)
                   ELSE KeyPath(currentPath, ks[i]),
                   acc))

\* detectChanges(oldObj, newObj, ''): the new changedPaths map and the
\* changed roots it returns
detectChanges(oldObj, newObj, timestamp) ==
    LET acc == Check(oldObj, newObj, <<>>, [changes |-> {}, roots |-> {}])
    IN  [changedPaths |-> [p \in acc.changes |-> timestamp],
         changedRoots |-> acc.roots]

\* position of the first ch in str at or after i (1-based), 0 when absent:
\* path.indexOf(']', i)
RECURSIVE IndexOfFrom(_, _, _)
IndexOfFrom(str, ch, i) ==
    IF i > Len(str) THEN 0
    ELSE IF str[i] = ch THEN i ELSE IndexOfFrom(str, ch, i + 1)

\* the while loop of getParentPaths from position i (1-based) with the
\* prefix current built so far
RECURSIVE ParentPathsFrom(_, _, _, _)
\* a loop that records a parent at a dot but not at an index
ParentPathsFromDotsOnly(path, i, current, parents) ==
    IF i > Len(path) THEN parents
    ELSE IF path[i] = "."
    THEN ParentPathsFrom(path, i + 1, Append(current, "."),
             IF current # <<>> THEN Append(parents, current) ELSE parents)
    ELSE IF path[i] = "["
    THEN LET end == IndexOfFrom(path, "]", i)
         IN  ParentPathsFrom(path, end + 1, current \o SubSeq(path, i, end), parents)
    ELSE ParentPathsFrom(path, i + 1, Append(current, path[i]), parents)

ParentPathsFrom(path, i, current, parents) ==
    IF i > Len(path) THEN parents
    ELSE IF path[i] = "."
    THEN ParentPathsFrom(path, i + 1, Append(current, "."),
             IF current # <<>> THEN Append(parents, current) ELSE parents)
    ELSE IF path[i] = "["
    THEN LET end == IndexOfFrom(path, "]", i)
         IN  ParentPathsFrom(path, end + 1, current \o SubSeq(path, i, end),
                 IF current # <<>> THEN Append(parents, current) ELSE parents)
    ELSE ParentPathsFrom(path, i + 1, Append(current, path[i]), parents)

\* getParentPaths(path)
getParentPaths(path) == ParentPathsFrom(path, 1, <<>>, <<>>)

Range(s) == {s[i] : i \in 1..Len(s)}

\* an auto-expansion that expands every root of the snapshot, changed or not
autoExpandAllRoots(sig, changed, changedRoots) ==
    Range(JKeys(sig))
    \cup UNION {UNION {Range(getParentPaths(changedPath)) :
                         changedPath \in {p \in DOMAIN changed : startsWith(p, rt)}} :
                  rt \in {r \in Range(JKeys(sig)) : r \in changedRoots}}

\* autoExpandChanged(changedRoots): the new expandedPaths, computed from the
\* stored signals and changedPaths
autoExpandChanged(sig, changed, changedRoots) ==
    UNION {{rt} \cup UNION {Range(getParentPaths(changedPath)) :
                                 changedPath \in {p \in DOMAIN changed : startsWith(p, rt)}} :
            rt \in {r \in Range(JKeys(sig)) : r \in changedRoots}}

\* getType(value)
getType(value) == value.t

\* key.startsWith('$') negated: the filter of buildTree
NotAccessor(name) == ~(Len(name) > 0 /\ name[1] = "$")

\* a TreeNode; hasChildren tells whether node.children was set, count is -1
\* when node.count was not set
TreeNode(name, value, path, hasChildren, children, count) ==
    [key |-> name, value |-> value, type |-> getType(value), path |-> path,
     hasChildren |-> hasChildren, children |-> children, count |-> count]

\* buildTree(obj, parentPath); ItemNode is the callback of the inner map
\* over an array's items
RECURSIVE buildTree(_, _), EntryNode(_, _, _), ItemNode(_, _, _)
buildTree(obj, parentPath) ==
    IF ~JIsContainer(obj) THEN <<>>
    ELSE LET kept == SelectSeq([i \in 1..Len(obj.k) |-> i], LAMBDA i : NotAccessor(obj.k[i]))
         IN  [j \in 1..Len(kept) |-> EntryNode(obj.k[kept[j]], obj.v[kept[j]], parentPath)]

EntryNode(name, value, parentPath) ==
    LET path == KeyPath(parentPath, name)
    IN  CASE getType(value) = "object" ->
                TreeNode(name, value, path, TRUE, buildTree(value, path), Len(value.k))
          [] getType(value) = "array" ->
                TreeNode(name, value, path, TRUE,
                         [i \in 1..Len(value.v) |-> ItemNode(value.v[i], i - 1, path)],
                         Len(value.v))
          [] OTHER -> TreeNode(name, value, path, FALSE, <<>>, -1)

ItemNode(item, i, path) ==
    LET itemPath == IndexPath(path, i)
    IN  CASE getType(item) = "object" ->
                TreeNode(IndexKey(i), item, itemPath, TRUE, buildTree(item, itemPath), Len(item.k))
          [] getType(item) = "array" ->
                TreeNode(IndexKey(i), item, itemPath, FALSE, <<>>, Len(item.v))
          [] OTHER -> TreeNode(IndexKey(i), item, itemPath, FALSE, <<>>, -1)

\* the nodes renderTree reaches: every node and, through node.children,
\* every descendant
RECURSIVE RenderedNodes(_)
RenderedNodes(nodes) ==
    UNION {{nodes[i]} \cup (IF nodes[i].hasChildren THEN RenderedNodes(nodes[i].children) ELSE {}) :
            i \in 1..Len(nodes)}

\* paths of the rows that carry an expand button (renderNode: isExpandable)
ExpandablePaths(sig) ==
    {nd.path : nd \in {m \in RenderedNodes(buildTree(sig, <<>>)) : m.type \in {"object", "array"}}}

\* setInterval(() => this.updateSignals(), 100)
PollInterval == 100

\* setTimeout(() => { this.changedPaths = new Map() }, 1000)
ClearDelay == 1000

\* number of clear timers pending at once
MaxTimers == 2

\* number of times the element is connected to the document
MaxConnects == 2

\* number of values (scalars and containers) below the top of a snapshot
\* polled by the running viewer
MaxNodes == 1

\* the same for the snapshots handed to updateSignals() directly
WideNodes == 2

\* the same for the snapshots whose differences are examined path by path
DeepNodes == 3

\* number of direct updateSignals() calls
MaxCalls == 2

ViewKeys == <<(<<"a">>), (<<"b">>)>>

ViewLeaves == {JNum(1), JNum(2)}

\* every JSON value of exactly n nodes, and every list of values of n nodes
\* in total
RECURSIVE ValsOfSize(_), ListsOfSize(_)
ValsOfSize(n) ==
    IF n = 1 THEN ViewLeaves \cup {JArr(<<>>), JObj(<<>>, <<>>)}
    ELSE {JArr(items) : items \in ListsOfSize(n - 1)}
         \cup {JObj(<<ViewKeys[q]>>, <<x>>) : q \in 1..Len(ViewKeys), x \in ValsOfSize(n - 1)}
         \cup UNION {{JObj(ViewKeys, <<x, y>>) : x \in ValsOfSize(m), y \in ValsOfSize(n - 1 - m)} :
                        m \in 1..(n - 2)}

ListsOfSize(n) ==
    IF n = 0 THEN {<<>>}
    ELSE UNION {{<<x>> \o rest : x \in ValsOfSize(m), rest \in ListsOfSize(n - m)} : m \in 1..n}

\* the snapshots the host can serialise: an object of signals holding at
\* most n values
SnapshotsUpTo(n) ==
    {x \in UNION {ValsOfSize(m) : m \in 1..(n + 1)} : x.t = "object"}

Snapshots == SnapshotsUpTo(MaxNodes)

WideSnapshots == SnapshotsUpTo(WideNodes)

\* what document.querySelector('[data-json-signals]') and its textContent
\* give: no element, empty text, text JSON.parse rejects, or the text of a
\* snapshot (val is what JSON.parse returns)
SourcesOf(snaps) ==
    {[kind |-> q, val |-> JUndefined] : q \in {"absent", "empty", "malformed"}}
    \cup {[kind |-> "json", val |-> x] : x \in snaps}

Sources == SourcesOf(Snapshots)

WideSources == SourcesOf(WideSnapshots)

\* x with null in the place of every 2
RECURSIVE WithNull(_)
WithNull(x) ==
    IF JIsContainer(x) THEN [x EXCEPT !.v = [i \in 1..Len(x.v) |-> WithNull(x.v[i])]]
    ELSE IF x = JNum(2) THEN JNull ELSE x

\* snapshots of numbers and containers, and the same with a null leaf
DeepSnapshots ==
    SnapshotsUpTo(DeepNodes) \cup {WithNull(x) : x \in SnapshotsUpTo(DeepNodes)}

DeepSources == SourcesOf(DeepSnapshots)

\* keys that hold a path separator or start with the accessor sigil
DotKey == <<"a", ".", "b">>

BracketKey == <<"a", "[", "0", "]">>

SigilKey == <<"$", "b">>

\* x with its top-level key b renamed to name
RenameTop(x, name) ==
    [x EXCEPT !.k = [i \in 1..Len(x.k) |-> IF x.k[i] = ViewKeys[2] THEN name ELSE x.k[i]]]

\* x with the key b renamed to name in every object
RECURSIVE RenameAll(_, _)
RenameAll(x, name) ==
    IF ~JIsContainer(x) THEN x
    ELSE [x EXCEPT !.k = IF x.t = "object"
                         THEN [i \in 1..Len(x.k) |-> IF x.k[i] = ViewKeys[2] THEN name ELSE x.k[i]]
                         ELSE @,
                   !.v = [i \in 1..Len(x.v) |-> RenameAll(x.v[i], name)]]

\* snapshots whose keys are plain, hold a dot or a bracket at the top, or
\* start with the sigil at any depth
TreeSnapshots ==
    SnapshotsUpTo(DeepNodes)
    \cup {RenameTop(x, DotKey) : x \in SnapshotsUpTo(DeepNodes)}
    \cup {RenameTop(x, BracketKey) : x \in SnapshotsUpTo(DeepNodes)}
    \cup {RenameAll(x, SigilKey) : x \in SnapshotsUpTo(DeepNodes)}

TreeSources == SourcesOf(TreeSnapshots)

EmptyMap == <<>>

\* the fields updateSignals reads and writes
View ==
    [signals |-> signals, previousSignals |-> previousSignals,
     expandedPaths |-> expandedPaths, changedPaths |-> changedPaths,
     isFirstLoad |-> isFirstLoad, timers |-> timers]

\* a change detection branch that adds the new markers to the ones it finds
updateSignalsKeepsMarkers(w, source) ==
    IF source.kind # "json" THEN w
    ELSE LET newSignals == source.val
             newJson == JSONstringify(newSignals)
         IN  IF w.isFirstLoad /\ Len(JKeys(newSignals)) > 0
             THEN [w EXCEPT !.isFirstLoad = FALSE,
                            !.expandedPaths = Range(JKeys(newSignals)),
                            !.previousSignals = newJson,
                            !.signals = newSignals]
             ELSE IF newJson # w.previousSignals
             THEN LET d == detectChanges(w.signals, newSignals, 0)
                      merged == [p \in DOMAIN w.changedPaths \cup DOMAIN d.changedPaths |->
                                    IF p \in DOMAIN d.changedPaths THEN d.changedPaths[p]
                                    ELSE w.changedPaths[p]]
                  IN  [w EXCEPT !.changedPaths = merged,
                                !.previousSignals = newJson,
                                !.signals = newSignals,
                                !.expandedPaths =
                                    IF d.changedRoots # {}
                                    THEN autoExpandChanged(newSignals, merged, d.changedRoots)
                                    ELSE @,
                                !.timers = Append(@, ClearDelay)]
             ELSE w

\* an updateSignals that takes a missing or unparsable snapshot for an empty
\* one
updateSignalsResetsOnBadText(w, source) ==
    IF source.kind # "json"
    THEN [w EXCEPT !.signals = JObj(<<>>, <<>>), !.previousSignals = <<"{", "}">>]
    ELSE LET newSignals == source.val
             newJson == JSONstringify(newSignals)
         IN  IF w.isFirstLoad /\ Len(JKeys(newSignals)) > 0
             THEN [w EXCEPT !.isFirstLoad = FALSE,
                            !.expandedPaths = Range(JKeys(newSignals)),
                            !.previousSignals = newJson,
                            !.signals = newSignals]
             ELSE IF newJson # w.previousSignals
             THEN LET d == detectChanges(w.signals, newSignals, 0)
                  IN  [w EXCEPT !.changedPaths = d.changedPaths,
                                !.previousSignals = newJson,
                                !.signals = newSignals,
                                !.expandedPaths =
                                    IF d.changedRoots # {}
                                    THEN autoExpandChanged(newSignals, d.changedPaths, d.changedRoots)
                                    ELSE @,
                                !.timers = Append(@, ClearDelay)]
             ELSE w

\* a change detection branch that schedules no clear
updateSignalsNoClear(w, source) ==
    IF source.kind # "json" THEN w
    ELSE LET newSignals == source.val
             newJson == JSONstringify(newSignals)
         IN  IF w.isFirstLoad /\ Len(JKeys(newSignals)) > 0
             THEN [w EXCEPT !.isFirstLoad = FALSE,
                            !.expandedPaths = Range(JKeys(newSignals)),
                            !.previousSignals = newJson,
                            !.signals = newSignals]
             ELSE IF newJson # w.previousSignals
             THEN LET d == detectChanges(w.signals, newSignals, 0)
                  IN  [w EXCEPT !.changedPaths = d.changedPaths,
                                !.previousSignals = newJson,
                                !.signals = newSignals,
                                !.expandedPaths =
                                    IF d.changedRoots # {}
                                    THEN autoExpandChanged(newSignals, d.changedPaths, d.changedRoots)
                                    ELSE @]
             ELSE w

\* a change detection branch taken whatever the serialised form
updateSignalsAlwaysDiffs(w, source) ==
    IF source.kind # "json" THEN w
    ELSE LET newSignals == source.val
             newJson == JSONstringify(newSignals)
         IN  IF w.isFirstLoad /\ Len(JKeys(newSignals)) > 0
             THEN [w EXCEPT !.isFirstLoad = FALSE,
                            !.expandedPaths = Range(JKeys(newSignals)),
                            !.previousSignals = newJson,
                            !.signals = newSignals]
             ELSE LET d == detectChanges(w.signals, newSignals, 0)
                  IN  [w EXCEPT !.changedPaths = d.changedPaths,
                                !.previousSignals = newJson,
                                !.signals = newSignals,
                                !.expandedPaths =
                                    IF d.changedRoots # {}
                                    THEN autoExpandChanged(newSignals, d.changedPaths, d.changedRoots)
                                    ELSE @,
                                !.timers = Append(@, ClearDelay)]

\* the first-load branch also taken for a snapshot without keys
updateSignalsFirstLoadOnEmpty(w, source) ==
    IF source.kind # "json" THEN w
    ELSE LET newSignals == source.val
             newJson == JSONstringify(newSignals)
         IN  IF w.isFirstLoad
             THEN [w EXCEPT !.isFirstLoad = FALSE,
                            !.expandedPaths = Range(JKeys(newSignals)),
                            !.previousSignals = newJson,
                            !.signals = newSignals]
             ELSE IF newJson # w.previousSignals
             THEN LET d == detectChanges(w.signals, newSignals, 0)
                  IN  [w EXCEPT !.changedPaths = d.changedPaths,
                                !.previousSignals = newJson,
                                !.signals = newSignals,
                                !.expandedPaths =
                                    IF d.changedRoots # {}
                                    THEN autoExpandChanged(newSignals, d.changedPaths, d.changedRoots)
                                    ELSE @,
                                !.timers = Append(@, ClearDelay)]
             ELSE w

\* updateSignals() storing the new baseline of a diff without the snapshot
updateSignalsKeepsSnapshot(w, source) ==
    IF source.kind # "json" THEN w
    ELSE LET newSignals == source.val
             newJson == JSONstringify(newSignals)
         IN  IF w.isFirstLoad /\ Len(JKeys(newSignals)) > 0
             THEN [w EXCEPT !.isFirstLoad = FALSE,
                            !.expandedPaths = Range(JKeys(newSignals)),
                            !.previousSignals = newJson,
                            !.signals = newSignals]
             ELSE IF newJson # w.previousSignals
             THEN LET d == detectChanges(w.signals, newSignals, 0)
                  IN  [w EXCEPT !.changedPaths = d.changedPaths,
                                !.previousSignals = newJson,
                                !.expandedPaths =
                                    IF d.changedRoots # {}
                                    THEN autoExpandChanged(newSignals, d.changedPaths, d.changedRoots)
                                    ELSE @,
                                !.timers = Append(@, ClearDelay)]
             ELSE w

\* updateSignals() with the document holding source. Time is kept relative
\* to the present: a timestamp of Date.now() is an age of 0 and the clear
\* timer has ClearDelay left
updateSignals(w, source) ==
    IF source.kind # "json" THEN w
    ELSE LET newSignals == source.val
             newJson == JSONstringify(newSignals)
         IN  IF w.isFirstLoad /\ Len(JKeys(newSignals)) > 0
             THEN [w EXCEPT !.isFirstLoad = FALSE,
                            !.expandedPaths = Range(JKeys(newSignals)),
                            !.previousSignals = newJson,
                            !.signals = newSignals]
             ELSE IF newJson # w.previousSignals
             THEN LET d == detectChanges(w.signals, newSignals, 0)
                  IN  [w EXCEPT !.changedPaths = d.changedPaths,
                                !.previousSignals = newJson,
                                !.signals = newSignals,
                                !.expandedPaths =
                                    IF d.changedRoots # {}
                                    THEN autoExpandChanged(newSignals, d.changedPaths, d.changedRoots)
                                    ELSE @,
                                !.timers = Append(@, ClearDelay)]
             ELSE w

\* the exception JSON.parse(jsonSignalsEl.textContent) raises
JSONparseError(source) == IF source.kind = "malformed" THEN "SyntaxError" ELSE "none"

\* catch (e) { }: the exception is dropped
Caught(e) == "none"

\* the exception that leaves updateSignals(): the element and its text are
\* tested first, and JSON.parse runs inside the try block
updateSignalsError(source) ==
    IF source.kind \in {"absent", "empty"} THEN "none"
    ELSE Caught(JSONparseError(source))

\* the host changes its signals only while fewer than MaxTimers clears
\* are pending: w is what a poll made of the state
WithinRate(w) == Len(w.timers) <= MaxTimers

SetView(w) ==
    /\ signals' = w.signals
    /\ previousSignals' = w.previousSignals
    /\ expandedPaths' = w.expandedPaths
    /\ changedPaths' = w.changedPaths
    /\ isFirstLoad' = w.isFirstLoad
    /\ timers' = w.timers

ViewIdle ==
    /\ signals = JObj(<<>>, <<>>) /\ previousSignals = <<"{", "}">>
    /\ expandedPaths = {} /\ changedPaths = EmptyMap
    /\ collapsed = FALSE /\ isFirstLoad = TRUE
    /\ connected = FALSE /\ intervals = 0 /\ pollsDue = 0
    /\ timers = <<>> /\ calls = 0

\* the field initialisers of LiveSignals, before connectedCallback
ViewInit == ViewIdle

\* connectedCallback(): startObserving() polls once and starts an interval
Connect ==
    /\ ~connected
    /\ intervals < MaxConnects
    /\ connected' = TRUE
    /\ \E s \in Sources :
        LET w == updateSignals(View, s) IN WithinRate(w) /\ SetView(w)
    /\ intervals' = intervals + 1
    /\ UNCHANGED <<collapsed, pollsDue, calls, strVars, drVars, plugVars>>

\* the element leaves the document; LiveSignals defines no
\* disconnectedCallback, so nothing of its state changes
Disconnect ==
    /\ connected
    /\ connected' = FALSE
    /\ UNCHANGED <<signals, previousSignals, expandedPaths, changedPaths, collapsed,
                   isFirstLoad, intervals, pollsDue, timers, calls,
                   strVars, drVars, plugVars>>

\* a poll period passes: every live interval becomes due once. A clear
\* timer that has run out fires before more time passes
Tick ==
    /\ pollsDue = 0
    /\ \A i \in 1..Len(timers) : timers[i] > 0
    /\ timers' = [i \in 1..Len(timers) |-> timers[i] - PollInterval]
    /\ changedPaths' = [p \in DOMAIN changedPaths |-> changedPaths[p] + PollInterval]
    /\ pollsDue' = intervals
    /\ UNCHANGED <<signals, previousSignals, expandedPaths, collapsed,
                   isFirstLoad, connected, intervals, calls, strVars, drVars, plugVars>>

\* an interval callback: this.updateSignals()
Poll ==
    /\ pollsDue > 0
    /\ pollsDue' = pollsDue - 1
    /\ \E s \in Sources :
        LET w == updateSignals(View, s) IN WithinRate(w) /\ SetView(w)
    /\ UNCHANGED <<collapsed, connected, intervals, calls, strVars, drVars, plugVars>>

\* this.updateSignals() called directly, whatever the document holds
UpdateCall ==
    /\ calls < MaxCalls
    /\ calls' = calls + 1
    /\ \E s \in WideSources : SetView(updateSignals(View, s))
    /\ UNCHANGED <<collapsed, connected, intervals, pollsDue, strVars, drVars, plugVars>>

\* this.updateSignals() called directly, the document holding a snapshot of
\* up to DeepNodes values
DiffCall ==
    /\ calls < MaxCalls
    /\ calls' = calls + 1
    /\ \E s \in DeepSources : SetView(updateSignals(View, s))
    /\ UNCHANGED <<collapsed, connected, intervals, pollsDue, strVars, drVars, plugVars>>

\* the first this.updateSignals(), the document holding a snapshot with any
\* of the keys; render() builds the tree from this.signals
TreeCall ==
    /\ calls = 0
    /\ calls' = calls + 1
    /\ \E s \in TreeSources : SetView(updateSignals(View, s))
    /\ UNCHANGED <<collapsed, connected, intervals, pollsDue, strVars, drVars, plugVars>>

\* a clear that empties the map only when the markers are those of its own
\* diff
ClearFireOwnMarkersOnly ==
    /\ timers # <<>>
    /\ Head(timers) <= 0
    /\ timers' = Tail(timers)
    /\ changedPaths' = IF \A p \in DOMAIN changedPaths : changedPaths[p] >= ClearDelay
                       THEN EmptyMap ELSE changedPaths
    /\ UNCHANGED <<signals, previousSignals, expandedPaths, collapsed, isFirstLoad,
                   connected, intervals, pollsDue, calls,
                   strVars, drVars, plugVars>>

\* a clear timer fires: this.changedPaths = new Map()
ClearFire ==
    /\ timers # <<>>
    /\ Head(timers) <= 0
    /\ timers' = Tail(timers)
    /\ changedPaths' = EmptyMap
    /\ UNCHANGED <<signals, previousSignals, expandedPaths, collapsed, isFirstLoad,
                   connected, intervals, pollsDue, calls,
                   strVars, drVars, plugVars>>

\* a toggle that, when it expands a path, collapses every other one
ToggleExpandCollapsesOthers ==
    \E path \in ExpandablePaths(signals) :
        /\ expandedPaths' = IF path \in expandedPaths
                            THEN expandedPaths \ {path}
                            ELSE {path}
        /\ UNCHANGED <<signals, previousSignals, changedPaths, collapsed, isFirstLoad,
                       connected, intervals, pollsDue, timers, calls,
                       strVars, drVars, plugVars>>

\* toggleExpand(path), from the click on a row's expand button
ToggleExpand ==
    \E path \in ExpandablePaths(signals) :
        /\ expandedPaths' = IF path \in expandedPaths
                            THEN expandedPaths \ {path}
                            ELSE expandedPaths \cup {path}
        /\ UNCHANGED <<signals, previousSignals, changedPaths, collapsed, isFirstLoad,
                       connected, intervals, pollsDue, timers, calls,
                       strVars, drVars, plugVars>>

\* toggleCollapsed()
ToggleCollapsed ==
    /\ connected
    /\ collapsed' = ~collapsed
    /\ UNCHANGED <<signals, previousSignals, expandedPaths, changedPaths, isFirstLoad,
                   connected, intervals, pollsDue, timers, calls,
                   strVars, drVars, plugVars>>

\* ------------------------------------------------------------------------
\* Specifications
\* ------------------------------------------------------------------------

vars == <<strVars, drVars, plugVars, viewVars>>

Init == StrIdle /\ DeepReadIdle /\ PluginInit /\ ViewIdle

Next == Apply \/ Rerun \/ SignalSet \/ RootSet \/ Dispose

\* the plugin: one binding, its host effect and the signals it reads
Spec == Init /\ [][Next]_vars

\* a binding with a key on an element that has requestUpdate
FairInit == Init /\ key = KeyColorConfig /\ HasRequestUpdate(props)

\* the same binding under the host's contract: an effect whose dependency
\* changed is run again
FairSpec == FairInit /\ [][Next]_vars /\ WF_vars(RerunWith(TRUE) \/ RerunWith(FALSE))

StrInit ==
    /\ kstr \in StringsUpTo(MaxStrLen) /\ kout = <<>>
    /\ DeepReadIdle /\ PluginIdle /\ ViewIdle

StrNext == KebabOnce \/ KebabTwice

\* kebabToCamel applied once and twice to every short string
StrSpec == StrInit /\ [][StrNext]_vars

DeepReadInit ==
    /\ StrIdle /\ ViewIdle
    /\ drVal \in RootVals /\ drState = NoRead /\ drPc = "idle"
    /\ heap \in Heaps
    /\ root = Undefined /\ key = NoKey /\ copy = 0
    /\ props = <<>> /\ applied = FALSE /\ effects = 0 /\ registered = FALSE
    /\ cleanup = "none" /\ disposals = 0 /\ deps = {} /\ pending = FALSE
    /\ cyc = NoCycle

DeepReadNext == DeepReadStart \/ DeepReadIterate \/ DeepReadReturn

\* deepRead on every value over every small heap, a step at a time
DeepReadSpec == DeepReadInit /\ [][DeepReadNext]_vars

\* the recursion proceeds: nothing suspends a synchronous call
DeepReadFairSpec == DeepReadSpec /\ WF_vars(DeepReadNext)

ViewerInit == StrIdle /\ DeepReadIdle /\ PluginIdle /\ ViewInit

ViewerNext ==
    Connect \/ Disconnect \/ Tick \/ Poll \/ ClearFire \/ ToggleExpand \/ ToggleCollapsed

\* the viewer: its timers, the document it polls and the user
ViewerSpec == ViewerInit /\ [][ViewerNext]_vars

\* the viewer while time passes: a period that can elapse does, a due
\* interval callback runs, a clear timer that has run out fires
ViewerFairSpec ==
    ViewerSpec /\ WF_vars(Tick) /\ WF_vars(Poll) /\ WF_vars(ClearFire)

UpdateNext == UpdateCall \/ ToggleExpand

\* updateSignals() and toggleExpand() on their own, over wider snapshots
UpdateSpec == ViewerInit /\ [][UpdateNext]_vars

TreeNext == TreeCall

\* the viewer after its first snapshot, whose tree render() builds
TreeSpec == ViewerInit /\ [][TreeNext]_vars

DiffNext == DiffCall

\* the viewer fed two snapshots in a row: first load, then one diff
DiffSpec == ViewerInit /\ [][DiffNext]_vars

\* ------------------------------------------------------------------------
\* Properties of the plugin
\* ------------------------------------------------------------------------

\* a step in which the host runs update()
UpdateRuns == Apply \/ Rerun

\* the "set" events of a cycle, in order
Assignments(events) == SelectSeq(events, LAMBDA e : e[1] = "set")

\* the requestUpdate calls of a cycle, in order
Notifications(events) == SelectSeq(events, LAMBDA e : e[1] = "requestUpdate")

IsPlainObject(h, v) == IsContainer(v) /\ ~h[v[2]].arr

\* C1: with a key, an update cycle whose evaluation succeeds makes exactly
\* one assignment: the property named kebabToCamel(key) (colorConfig for
\* color-config) receives the evaluated value itself, whatever its shape, and
\* every other property of the element keeps what it had.
C1_SinglePropertyBinding ==
    [][(UpdateRuns /\ key # NoKey /\ cyc'.kind = "ok") =>
        /\ cyc'.value = root
        /\ Assignments(cyc'.events) = <<(<<"set", kebabToCamel(key), root>>)>>
        /\ (key = KeyColorConfig => PropColorConfig \in DOMAIN props')
        /\ props'[kebabToCamel(key)] = root
        /\ DOMAIN props' = DOMAIN props \cup {kebabToCamel(key)}
        /\ \A n \in DOMAIN props : n # kebabToCamel(key) => props'[n] = props[n]]_vars

\* C1 witness: an array with items was bound through color-config and sits,
\* as one value, in colorConfig
C1_Witness ==
    /\ key = KeyColorConfig
    /\ cyc.kind = "ok"
    /\ IsContainer(cyc.value) /\ heap[cyc.value[2]].arr /\ Len(heap[cyc.value[2]].vals) > 0
    /\ PropColorConfig \in DOMAIN props /\ props[PropColorConfig] = cyc.value

\* C2: without a key, an update cycle whose value is a non-array object
\* assigns every entry: afterwards each entry's name is a property of the
\* element holding the entry's value.
C2_MultiPropertyBinding ==
    [][(UpdateRuns /\ key = NoKey /\ cyc'.kind = "ok" /\ IsPlainObject(heap, root)) =>
        \A i \in 1..Len(heap[root[2]].vals) :
            /\ heap[root[2]].keys[i] \in DOMAIN props'
            /\ props'[heap[root[2]].keys[i]] = heap[root[2]].vals[i]]_vars

\* C2 witness: a cycle without key assigned two entries
C2_Witness ==
    /\ key = NoKey
    /\ cyc.kind = "ok"
    /\ IsPlainObject(heap, cyc.value)
    /\ Len(Assignments(cyc.events)) = 2
    /\ ObjectKeys[1] \in DOMAIN props /\ ObjectKeys[2] \in DOMAIN props

\* C3: in every cycle, when the element's requestUpdate is a function each
\* assignment is followed at once by exactly one requestUpdate call carrying
\* the assigned name, and nothing else is called; when it is not, the cycle
\* makes assignments only.
C3_UpdateNotification ==
    LET ev == cyc.events
    IN  IF HasRequestUpdate(props)
        THEN /\ Len(ev) = 2 * Len(Assignments(ev))
             /\ \A i \in 1..Len(ev) :
                    IF i % 2 = 1
                    THEN ev[i][1] = "set"
                    ELSE ev[i] = <<"requestUpdate", ev[i - 1][2], Undefined>>
        ELSE Notifications(ev) = <<>>

\* C3 witness: two entries were assigned to an element with requestUpdate,
\* each followed by its call
C3_Witness ==
    /\ HasRequestUpdate(props)
    /\ key = NoKey
    /\ Len(cyc.events) = 4
    /\ cyc.events[2] = <<"requestUpdate", ObjectKeys[1], Undefined>>
    /\ cyc.events[4] = <<"requestUpdate", ObjectKeys[2], Undefined>>

\* C4: a cycle whose evaluation throws assigns nothing, calls nothing, lets
\* no exception out of update, and the effect stays registered.
C4_EvaluationFailure ==
    [][(UpdateRuns /\ cyc'.kind = "threw") =>
        /\ props' = props
        /\ cyc'.events = <<>>
        /\ ~cyc'.propagated
        /\ registered']_vars

\* C4, the part both definitions of the plugin satisfy: a cycle whose
\* evaluation throws assigns nothing and calls nothing
C4_NoAssignmentOnThrow ==
    [][(UpdateRuns /\ cyc'.kind = "threw") =>
        (props' = props /\ cyc'.events = <<>>)]_vars

\* C5: without a key, a cycle whose value is a scalar, null, undefined or an
\* array assigns nothing, calls nothing and raises nothing.
C5_MultiPropertyNonObject ==
    [][(UpdateRuns /\ key = NoKey /\ cyc'.kind = "ok" /\ ~IsPlainObject(heap, root)) =>
        /\ props' = props
        /\ cyc'.events = <<>>
        /\ ~cyc'.propagated]_vars

\* C5 witness: a cycle without key evaluated to an array with items and
\* left the element alone
C5_Witness ==
    /\ key = NoKey
    /\ cyc.kind = "ok"
    /\ IsContainer(cyc.value) /\ heap[cyc.value[2]].arr /\ Len(heap[cyc.value[2]].vals) > 0
    /\ cyc.events = <<>>
    /\ DOMAIN props \subseteq {RequestUpdateName}

\* C6: deepRead terminates on every value over every heap, cyclic or not;
\* it never descends into a container twice, and when it returns it has
\* descended into exactly the containers reachable from the value.
C6_DeepReadTerminatesOncePerContainer ==
    /\ [](\A i, j \in 1..Len(drState.log) : drState.log[i] = drState.log[j] => i = j)
    /\ [](drPc = "done" => Range(drState.log) = Reachable(heap, drVal))
    /\ <>(drPc = "done")

\* C6 witness: deepRead returned from a value that reaches itself through a
\* second container, having descended into both
C6_Witness ==
    /\ drPc = "done"
    /\ IsContainer(drVal)
    /\ Len(drState.log) = 2
    /\ \E r \in Ref : r # drVal[2] /\ drVal[2] \in Reachable(heap, RefTo(r))
                        /\ r \in Reachable(heap, drVal)

\* a write to a property the last successful cycle could reach
WritesReachable ==
    \E r \in Ref : \E i \in 1..Len(heap[r].vals) :
        /\ heap'[r].vals[i] # heap[r].vals[i]
        /\ <<r, heap[r].keys[i]>> \in deps

\* C7: every cycle whose evaluation succeeds reads, inside the effect, every
\* property reachable from the evaluated value; a write to a property the
\* effect read marks the live effect for a re-run; and a marked effect is
\* run again (or disposed of), the re-run assigning and notifying as any
\* cycle does.
C7_DeepReactivity ==
    /\ [][(UpdateRuns /\ cyc'.kind = "ok") => ReachableProps(heap, root) \subseteq deps']_vars
    /\ [][(SignalSet /\ registered /\ WritesReachable) => pending']_vars
    /\ ((registered /\ pending) ~> ~pending)

\* C7 witness: a live effect is marked for a re-run while the expression
\* still evaluates to the container of the last cycle, and the effect had
\* read a property of a second container reachable from it
C7_Witness ==
    /\ registered /\ pending
    /\ cyc.kind = "ok" /\ IsContainer(cyc.value) /\ root = cyc.value
    /\ \E r \in Ref : /\ r # cyc.value[2]
                      /\ r \in Reachable(heap, cyc.value)
                      /\ heap[r].vals # <<>>
                      /\ <<r, heap[r].keys[1]>> \in deps

\* C8: apply registers exactly one effect and returns its disposer; once the
\* disposer has been called the effect is gone, no step assigns to the
\* element or runs a cycle, and a further call changes nothing but the count
\* of calls.
C8_Disposer ==
    [][/\ (applied' => effects' = 1 /\ cleanup' = "effect")
       /\ (disposals' > 0 => ~registered' /\ ~pending')
       /\ (disposals > 0 => props' = props /\ cyc' = cyc /\ registered' = registered
                              /\ deps' = deps /\ effects' = effects)]_vars

\* C8 witness: the disposer was called twice and a signal the effect had
\* read was written afterwards
C8_Witness ==
    /\ disposals = 2
    /\ cyc.kind = "ok" /\ IsContainer(cyc.value)
    /\ key = KeyColorConfig
    /\ root # props[PropColorConfig]

\* ------------------------------------------------------------------------
\* Properties of kebabToCamel
\* ------------------------------------------------------------------------

HasHyphenLetter(str) ==
    \E i \in 1..(Len(str) - 1) : str[i] = "-" /\ IsLowerLetter(str[i + 1])

\* the result read off the definition: every hyphen followed by a lower-case
\* letter, found from the left without overlap, becomes that letter in upper
\* case. Matches never overlap because a match ends in a letter.
MatchStarts(str) == {i \in 1..(Len(str) - 1) : str[i] = "-" /\ IsLowerLetter(str[i + 1])}

Expected(str) ==
    LET kept == SelectSeq([i \in 1..Len(str) |-> i], LAMBDA i : i \notin MatchStarts(str))
    IN  [j \in 1..Len(kept) |->
            IF kept[j] - 1 \in MatchStarts(str) THEN toUpperCase(str[kept[j]]) ELSE str[kept[j]]]

\* C9: kebabToCamel replaces every hyphen followed by a lower-case letter by
\* that letter in upper case, returns a string without such a pair
\* unchanged, and applying it twice gives what applying it once gives.
C9_KebabToCamel ==
    /\ Len(kout) >= 1 =>
        /\ kout[1] = Expected(kstr)
        /\ ~HasHyphenLetter(kout[1])
        /\ (~HasHyphenLetter(kstr) => kout[1] = kstr)
    /\ Len(kout) = 2 => kout[2] = kout[1]
    /\ kebabToCamel(KeyColorConfig) = PropColorConfig

\* C9 witness: a string with two matches was converted twice
C9_Witness ==
    /\ Len(kout) = 2
    /\ kstr = <<"-", "a", "-", "b">>
    /\ kout[1] = <<"A", "B">>

\* what the first-load initialisation makes of view w for the parsed
\* snapshot x: roots expanded, x the baseline, markers and timers as they were
FirstLoadOf(w, x) ==
    [w EXCEPT !.isFirstLoad = FALSE,
              !.expandedPaths = Range(JKeys(x)),
              !.previousSignals = JSONstringify(x),
              !.signals = x]

\* C10: while the viewer awaits its first snapshot, updateSignals() runs the
\* first-load initialisation exactly for a parsed snapshot with at least one
\* top-level key: the expansion set becomes exactly the top-level keys, the
\* snapshot becomes the baseline, no diff is computed, the marker map stays
\* empty and no clear timer is scheduled. No keyed snapshot was taken in
\* before it, and once it has run no later call runs it again.
C10_FirstSnapshot ==
    /\ isFirstLoad => (Len(JKeys(signals)) = 0 /\ changedPaths = EmptyMap /\ timers = <<>>)
    /\ \A s \in WideSources :
        LET w == updateSignals(View, s)
            keyed == s.kind = "json" /\ Len(JKeys(s.val)) > 0
        IN  /\ (isFirstLoad /\ keyed) =>
                /\ w = FirstLoadOf(View, s.val)
                /\ w.expandedPaths = {s.val.k[i] : i \in 1..Len(s.val.k)}
                /\ w.changedPaths = EmptyMap
                /\ w.timers = <<>>
            /\ (isFirstLoad /\ ~keyed) => w = View
            /\ ~isFirstLoad =>
                /\ ~w.isFirstLoad
                /\ (w = View \/ Len(w.timers) = Len(timers) + 1)

\* C10 witness: the first call saw a snapshot with the keys a and b
C10_Witness ==
    /\ calls = 1 /\ ~isFirstLoad
    /\ expandedPaths = {<<"a">>, <<"b">>}
    /\ previousSignals = JSONstringify(signals)
    /\ Len(JKeys(signals)) = 2
    /\ changedPaths = EmptyMap /\ timers = <<>>

\* C11: in steady state, updateSignals() on a snapshot that serialises to
\* the stored baseline string does no work: the stored snapshot, the
\* baseline, the expansion set and the marker map stay as they are and no
\* clear timer is scheduled; and every poll that leaves the baseline string
\* as it was leaves all of these as they were.
C11_UnchangedSnapshot ==
    /\ [](\A s \in Sources :
            (~isFirstLoad /\ s.kind = "json" /\ JSONstringify(s.val) = previousSignals)
                => updateSignals(View, s) = View)
    /\ [][((Poll \/ Connect) /\ ~isFirstLoad /\ previousSignals' = previousSignals) =>
            UNCHANGED <<signals, expandedPaths, changedPaths, timers, isFirstLoad>>]_vars

\* C11 witness: one period after a diff marked a, a poll has run and left
\* the marker, the timer and the snapshot as they were
C11_Witness ==
    /\ ~isFirstLoad /\ intervals = 1 /\ pollsDue = 0
    /\ signals = JObj(<<(<<"a">>)>>, <<JNum(2)>>)
    /\ previousSignals = JSONstringify(signals)
    /\ timers = <<ClearDelay - PollInterval>>
    /\ DOMAIN changedPaths = {<<"a">>} /\ changedPaths[<<"a">>] = PollInterval

\* A path as the list of its segments: <<"k", name>> for an object key,
\* <<"i", n>> for an array index
KeySeg(name) == <<"k", name>>

IndexSeg(n) == <<"i", n>>

\* the value one segment below x, undefined when there is none
Child(x, seg) ==
    IF seg[1] = "k"
    THEN IF x.t = "object" THEN JGet(x, seg[2]) ELSE JUndefined
    ELSE IF x.t = "array" /\ seg[2] < Len(x.v) THEN x.v[seg[2] + 1] ELSE JUndefined

\* the value of snapshot x at the path segs
RECURSIVE ValueAt(_, _)
ValueAt(x, segs) ==
    IF Len(segs) = 0 THEN x ELSE ValueAt(Child(x, Head(segs)), Tail(segs))

\* the path string of segs: keys joined by dots, indices in brackets
RECURSIVE PathString(_)
PathString(segs) ==
    IF Len(segs) = 0 THEN <<>>
    ELSE LET front == PathString(SubSeq(segs, 1, Len(segs) - 1))
             last == segs[Len(segs)]
         IN  IF last[1] = "i" THEN front \o <<"[">> \o <<Decimal[last[2] + 1]>> \o <<"]">>
             ELSE IF front = <<>> THEN last[2]
             ELSE front \o <<".">> \o last[2]

\* the segments leading from container x to its members
SegsOf(x) ==
    CASE x.t = "object" -> {KeySeg(x.k[i]) : i \in 1..Len(x.k)}
      [] x.t = "array" -> {IndexSeg(i - 1) : i \in 1..Len(x.v)}
      [] OTHER -> {}

\* every path from the top of x to a value in x, the empty path left out
RECURSIVE PathsBelow(_)
PathsBelow(x) ==
    UNION {{<<sg>>} \cup {<<sg>> \o rest : rest \in PathsBelow(Child(x, sg))} : sg \in SegsOf(x)}

\* a direct call of updateSignals that took the change detection branch
DiffRan == calls' = calls + 1 /\ ~isFirstLoad /\ previousSignals' # previousSignals

ExampleOld ==
    JObj(ViewKeys, <<JNum(1), JObj(<<ViewKeys[1]>>, <<JNum(1)>>)>>)

ExampleNew ==
    JObj(ViewKeys, <<JNum(1), JObj(<<ViewKeys[1]>>, <<JNum(2)>>)>>)

\* C12: after a diff, a path whose new value is a scalar or null is in the
\* change set exactly when the old value at that path differs from the new
\* one; with old {a:1,b:{a:1}} and new {a:1,b:{a:2}} the change set is
\* exactly {"b.a"}.
C12_DiffScalarRule ==
    [][DiffRan =>
        /\ \A segs \in PathsBelow(signals') :
            ~JIsContainer(ValueAt(signals', segs)) =>
                (PathString(segs) \in DOMAIN changedPaths'
                    <=> ValueAt(signals, segs) # ValueAt(signals', segs))
        /\ (signals = ExampleOld /\ signals' = ExampleNew) =>
                DOMAIN changedPaths' = {<<"b", ".", "a">>}]_vars

\* C12 witness: a diff whose new snapshot is {a:1,b:{a:2}} marked b.a alone
C12_Witness ==
    /\ calls = MaxCalls /\ ~isFirstLoad
    /\ signals = ExampleNew
    /\ DOMAIN changedPaths = {<<"b", ".", "a">>}
    /\ Len(timers) = 1

ItemsOld == JObj(<<ViewKeys[1]>>, <<JArr(<<JNum(1), JNum(2)>>)>>)

ItemsNew == JObj(<<ViewKeys[1]>>, <<JArr(<<JNum(1), JNum(2), JNum(1)>>)>>)

\* C13: after a diff, a path whose new value is an array is in the change
\* set exactly when the old value there is not an array or has another
\* length, and each scalar item i of the new array is marked, at path p[i],
\* exactly when it differs from item i of the old value; for a: [1,2]
\* becoming [1,2,1] the array path a is marked and a[0] and a[1] are not.
C13_DiffArrayRule ==
    /\ [][DiffRan =>
            \A segs \in PathsBelow(signals') :
                LET old == ValueAt(signals, segs)
                    new == ValueAt(signals', segs)
                IN  new.t = "array" =>
                        /\ PathString(segs) \in DOMAIN changedPaths'
                             <=> (old.t # "array" \/ Len(old.v) # Len(new.v))
                        /\ \A i \in 1..Len(new.v) :
                             ~JIsContainer(new.v[i]) =>
                                (IndexPath(PathString(segs), i - 1) \in DOMAIN changedPaths'
                                    <=> (IF old.t = "array" /\ i <= Len(old.v)
                                         THEN old.v[i] ELSE JUndefined) # new.v[i])]_vars
    /\ [](LET d == detectChanges(ItemsOld, ItemsNew, 0)
          IN  /\ <<"a">> \in DOMAIN d.changedPaths
              /\ <<"a", "[", "0", "]">> \notin DOMAIN d.changedPaths
              /\ <<"a", "[", "1", "]">> \notin DOMAIN d.changedPaths)

\* C13 witness: a diff took a from [1] to [1,2]: a and the new index are
\* marked, index 0 is not
C13_Witness ==
    /\ calls = MaxCalls /\ ~isFirstLoad
    /\ signals = JObj(<<ViewKeys[1]>>, <<JArr(<<JNum(1), JNum(2)>>)>>)
    /\ DOMAIN changedPaths = {<<"a">>, <<"a", "[", "1", "]">>}
    /\ Len(timers) = 1

\* the paths from the top of x to the values in x, the top itself included
PathsIn(x) == {<<>>} \cup PathsBelow(x)

\* the keys old and new do not share
OneSided(old, new) ==
    (Range(JKeys(old)) \ Range(JKeys(new))) \cup (Range(JKeys(new)) \ Range(JKeys(old)))

\* changed holds path or a path beneath it
MarkedAtOrBelow(changed, path) ==
    \E p \in DOMAIN changed :
        \/ p = path
        \/ startsWith(p, path \o <<".">>)
        \/ startsWith(p, path \o <<"[">>)

\* C14: after a diff, for every path whose new value is an object, every key
\* that only the old or only the new value has, whatever its value (an
\* empty object or array included), has its path or a path beneath it in
\* the change set.
C14_DiffObjectRule ==
    [][DiffRan =>
        \A segs \in PathsIn(signals') :
            LET old == ValueAt(signals, segs)
                new == ValueAt(signals', segs)
            IN  new.t = "object" =>
                    \A name \in OneSided(old, new) :
                        MarkedAtOrBelow(changedPaths', KeyPath(PathString(segs), name))]_vars

\* C14, the part the diff satisfies: a key only the old value has is marked
\* at its own path, and a key only the new value has is marked at or below
\* its path unless its value is an object
C14_OneSidedKeysMarked ==
    [][DiffRan =>
        \A segs \in PathsIn(signals') :
            LET old == ValueAt(signals, segs)
                new == ValueAt(signals', segs)
            IN  new.t = "object" =>
                    \A name \in OneSided(old, new) :
                        /\ name \notin Range(JKeys(new)) =>
                                KeyPath(PathString(segs), name) \in DOMAIN changedPaths'
                        /\ (name \in Range(JKeys(new)) /\ JGet(new, name).t # "object") =>
                                KeyPath(PathString(segs), name) \in DOMAIN changedPaths']_vars

\* C15: the changed roots detectChanges returns for a diff are exactly the
\* top-level keys, of the old or the new snapshot, with a path of the change
\* set at or beneath them; for old {a:1,b:{a:1}} and new {a:1,b:{a:2}} they
\* are {"b"}.
C15_ChangedRoots ==
    /\ [][DiffRan =>
            LET d == detectChanges(signals, signals', 0)
            IN  /\ d.changedPaths = changedPaths'
                /\ d.changedRoots =
                     {r \in Range(JKeys(signals)) \cup Range(JKeys(signals')) :
                         MarkedAtOrBelow(changedPaths', r)}]_vars
    /\ [](detectChanges(ExampleOld, ExampleNew, 0).changedRoots = {<<"b">>})

\* C15 witness: a diff changed b.a alone; the roots it returned made b the
\* one expanded path
C15_Witness ==
    /\ calls = MaxCalls /\ ~isFirstLoad
    /\ signals = ExampleNew
    /\ DOMAIN changedPaths = {<<"b", ".", "a">>}
    /\ expandedPaths = {<<"b">>}

\* the proper ancestors of a path string: what stands before each dot and
\* each opening bracket
AncestorsOf(p) == {SubSeq(p, 1, i - 1) : i \in {j \in 2..Len(p) : p[j] \in {".", "["}}}

DeepPath == <<"a", ".", "b", "[", "2", "]", ".", "a">>

\* C16: after a diff that returns at least one changed root, the expansion
\* set holds every changed root that is a key of the new snapshot and every
\* proper ancestor of every changed path; the ancestors of a.b[2].a are a,
\* a.b and a.b[2].
C16_AutoExpansion ==
    /\ [][(DiffRan /\ detectChanges(signals, signals', 0).changedRoots # {}) =>
            /\ \A r \in detectChanges(signals, signals', 0).changedRoots :
                    r \in Range(JKeys(signals')) => r \in expandedPaths'
            /\ \A p \in DOMAIN changedPaths' : AncestorsOf(p) \subseteq expandedPaths']_vars
    /\ [](Range(getParentPaths(DeepPath))
            = {<<"a">>, <<"a", ".", "b">>, <<"a", ".", "b", "[", "2", "]">>})

\* C16 witness: a diff changed a.b[0]; a and a.b are expanded
C16_Witness ==
    /\ calls = MaxCalls /\ ~isFirstLoad
    /\ DOMAIN changedPaths = {<<"a", ".", "b", "[", "0", "]">>}
    /\ expandedPaths = {<<"a">>, <<"a", ".", "b">>}

\* path is top-level key r or lies beneath it
AtOrBelow(path, r) ==
    \/ path = r
    \/ startsWith(path, r \o <<".">>)
    \/ startsWith(path, r \o <<"[">>)

\* a direct call of updateSignals after first load that computed no diff
NoDiffRan == calls' = calls + 1 /\ ~isFirstLoad /\ previousSignals' = previousSignals

\* C17: after any diff, for every top-level key that is not a changed root,
\* the key and every path beneath it are in the expansion set exactly when
\* they were before the diff; and a call that computes no diff leaves the
\* expansion set as it was.
C17_UnchangedRootsUntouched ==
    [][/\ DiffRan =>
            \A r \in (Range(JKeys(signals)) \cup Range(JKeys(signals')))
                        \ detectChanges(signals, signals', 0).changedRoots :
                \A q \in expandedPaths \cup expandedPaths' :
                    AtOrBelow(q, r) => (q \in expandedPaths <=> q \in expandedPaths')
       /\ NoDiffRan => expandedPaths' = expandedPaths]_vars

\* C17 as the code has it: a diff that returns at least one changed root
\* rebuilds the expansion set from the changed roots of the new snapshot and
\* the ancestors of the changed paths, so no top-level key that is not a
\* changed root and no path beneath one stays expanded; a diff that returns
\* no changed root, and a call that computes no diff, leave it as it was.
C17_UnchangedRootsCollapsed ==
    [][/\ DiffRan =>
            LET d == detectChanges(signals, signals', 0)
            IN  IF d.changedRoots # {}
                THEN /\ expandedPaths' =
                            (d.changedRoots \cap Range(JKeys(signals')))
                            \cup UNION {AncestorsOf(p) : p \in DOMAIN changedPaths'}
                     /\ \A q \in expandedPaths' : RootOf(q) \in d.changedRoots
                ELSE expandedPaths' = expandedPaths
       /\ NoDiffRan => expandedPaths' = expandedPaths]_vars

\* C17 witness: a and b were expanded at first load; a diff changed a alone
\* and b is no longer expanded
C17_Witness ==
    /\ calls = MaxCalls /\ ~isFirstLoad
    /\ signals = JObj(ViewKeys, <<JNum(2), JNum(1)>>)
    /\ DOMAIN changedPaths = {<<"a">>}
    /\ expandedPaths = {<<"a">>}

\* a poll that took the change detection branch
PollDiffRan == (Poll \/ Connect) /\ ~isFirstLoad /\ previousSignals' # previousSignals

\* C18: every diff schedules one clear ClearDelay ms ahead; the clear fires
\* when that time has passed and empties the marker map whatever it holds,
\* leaving the stored snapshot, the baseline and the expansion set as they
\* were; so a marker map that is not empty becomes empty, and after {a:1}
\* then {a:2} the path a is marked and the snapshot still holds 2 when the
\* marker has gone.
C18_MarkerClearing ==
    /\ [][PollDiffRan => timers' = Append(timers, ClearDelay)]_vars
    /\ [][ClearFire =>
            /\ Head(timers) = 0
            /\ changedPaths' = EmptyMap
            /\ UNCHANGED <<signals, previousSignals, expandedPaths>>]_vars
    /\ [](changedPaths # EmptyMap => timers # <<>>)
    /\ (changedPaths # EmptyMap ~> changedPaths = EmptyMap)
    /\ [](DOMAIN detectChanges(JObj(<<ViewKeys[1]>>, <<JNum(1)>>),
                               JObj(<<ViewKeys[1]>>, <<JNum(2)>>), 0).changedPaths = {<<"a">>})

\* C18 witness: the marker of a set by a diff ClearDelay ms ago is still
\* there, its clear is due and the snapshot holds 2
C18_Witness ==
    /\ signals = JObj(<<ViewKeys[1]>>, <<JNum(2)>>)
    /\ DOMAIN changedPaths = {<<"a">>} /\ changedPaths[<<"a">>] = ClearDelay
    /\ timers = <<0>>

\* C19: once the viewer is disconnected from the document no interval
\* callback runs updateSignals(), so none reads the snapshot source or
\* changes the viewer's state, and whatever the sequence of connects,
\* disconnects and reconnects at most one poll timer is active.
C19_TeardownCancelsPoll ==
    [][/\ ~connected => ~Poll
       /\ intervals' <= 1]_vars

\* C20: in every state of the viewer, updateSignals() with no snapshot
\* element, with empty text or with text that does not parse lets no
\* exception out and leaves the stored snapshot, the baseline string, the
\* expansion set, the marker map, the first-load flag and the pending
\* timers as they are.
C20_MissingOrMalformed ==
    \A s \in Sources :
        s.kind \in {"absent", "empty", "malformed"} =>
            /\ updateSignalsError(s) = "none"
            /\ updateSignals(View, s) = View
            /\ updateSignals(View, s).timers = timers

\* C20 witness: two periods after a diff marked a, both polls have left the
\* marker, its timer and the snapshot as they were
C20_Witness ==
    /\ ~isFirstLoad /\ intervals = 1 /\ pollsDue = 0
    /\ timers = <<ClearDelay - 2 * PollInterval>>
    /\ DOMAIN changedPaths = {<<"a">>} /\ changedPaths[<<"a">>] = 2 * PollInterval
    /\ previousSignals = JSONstringify(signals)

\* the set s with the membership of x flipped
Flip(s, x) == IF x \in s THEN s \ {x} ELSE s \cup {x}

\* a step that is no call of updateSignals: a click on an expand button
ToggleStep == calls' = calls /\ pollsDue' = pollsDue /\ expandedPaths' # expandedPaths

\* C21: toggleExpand(path) flips the membership of that one path in the
\* expansion set, whether the user or an auto-expansion put it there, and
\* leaves every other path, the stored snapshot, the baseline, the markers
\* and the timers as they were; toggling the same path again gives the set
\* back.
C21_UserToggle ==
    [][ToggleStep =>
        /\ \E path \in ExpandablePaths(signals) :
            /\ expandedPaths' = Flip(expandedPaths, path)
            /\ (path \in expandedPaths') # (path \in expandedPaths)
            /\ \A q \in (expandedPaths \cup expandedPaths') \ {path} :
                    (q \in expandedPaths') = (q \in expandedPaths)
            /\ Flip(expandedPaths', path) = expandedPaths
        /\ UNCHANGED <<signals, previousSignals, changedPaths, timers, isFirstLoad>>]_vars

\* C21 witness: a diff marked and auto-expanded a, and a toggle collapsed
\* it again while its marker stayed
C21_Witness ==
    /\ calls = MaxCalls /\ ~isFirstLoad
    /\ signals = JObj(<<ViewKeys[1]>>, <<JArr(<<JNum(1)>>)>>)
    /\ <<"a">> \in DOMAIN changedPaths
    /\ expandedPaths = {}

\* a call of updateSignals, from a poll or direct, that took the change
\* detection branch
AnyDiffRan == ~isFirstLoad /\ previousSignals' # previousSignals

\* the change set of old and new read off the diff's three rules: scalars
\* that differ, arrays whose old value is no array or has another length,
\* and keys the new object no longer has
ExpectedChanges(old, new) ==
    {PathString(segs) : segs \in
        {sg \in PathsBelow(new) :
            LET o == ValueAt(old, sg)
                n == ValueAt(new, sg)
            IN  CASE n.t = "array" -> o.t # "array" \/ Len(o.v) # Len(n.v)
                  [] n.t = "object" -> FALSE
                  [] OTHER -> o # n}}
    \cup UNION {{KeyPath(PathString(segs), name) :
                    name \in Range(JKeys(ValueAt(old, segs))) \ Range(JKeys(ValueAt(new, segs)))} :
                 segs \in {sg \in PathsIn(new) : ValueAt(new, sg).t = "object"}}

\* C22: right after any diff the marker map holds exactly the paths that
\* diff found changed, each with that diff's one timestamp (age 0), so a
\* marker of an earlier diff is there only if this diff changed its path
\* too, and then with the new timestamp.
C22_MarkersRecomputed ==
    [][AnyDiffRan =>
        /\ DOMAIN changedPaths' = ExpectedChanges(signals, signals')
        /\ \A p \in DOMAIN changedPaths' : changedPaths'[p] = 0
        /\ \A p \in DOMAIN changedPaths :
                p \in DOMAIN changedPaths' => p \in ExpectedChanges(signals, signals')]_vars

\* C22 witness: two diffs one period apart, both pending; b, marked by the
\* first, carries the timestamp of the second
C22_Witness ==
    /\ timers = <<ClearDelay - PollInterval, ClearDelay>>
    /\ signals = JObj(<<ViewKeys[2]>>, <<JNum(2)>>)
    /\ DOMAIN changedPaths = {<<"b">>} /\ changedPaths[<<"b">>] = 0

\* a step in which a clear timer fired
ClearStep == Len(timers') = Len(timers) - 1

\* C23: when the clear timer of an earlier diff fires on the markers of a
\* later diff, those markers are between ClearDelay - PollInterval and
\* ClearDelay + PollInterval ms old: they go at most one poll period early
\* or late.
C23_ClearRaceWithinOneInterval ==
    [][ClearStep =>
        \A p \in DOMAIN changedPaths :
            /\ changedPaths[p] >= ClearDelay - PollInterval
            /\ changedPaths[p] <= ClearDelay + PollInterval]_vars

\* C23 as the code has it: the clear timer of an earlier diff empties the
\* map whatever diff its markers are from, so the markers of a later diff
\* go anywhere between 0 and ClearDelay ms after that diff: early by up to
\* the whole delay, never late, and no marker is ever older than ClearDelay.
C23_ClearRaceEarlyNeverLate ==
    /\ [][ClearStep =>
            /\ changedPaths' = EmptyMap
            /\ \A p \in DOMAIN changedPaths :
                    changedPaths[p] >= 0 /\ changedPaths[p] <= ClearDelay]_vars
    /\ [](\A p \in DOMAIN changedPaths : changedPaths[p] <= ClearDelay)
    /\ [](changedPaths # EmptyMap => timers # <<>> /\ timers[Len(timers)] = ClearDelay - changedPaths[CHOOSE p \in DOMAIN changedPaths : TRUE])

\* C23 witness: the timer of the earlier diff has emptied the map while the
\* timer of the later diff has half its delay left
C23_Witness ==
    /\ changedPaths = EmptyMap
    /\ timers = <<5 * PollInterval>>
    /\ ~isFirstLoad /\ pollsDue = 0

\* a key that starts with a letter
StartsWithLetter(str) ==
    Len(str) > 0 /\ \E k \in 1..26 : str[1] = LowerLetters[k] \/ str[1] = UpperLetters[k]

\* a key without upper-case letters, as an HTML attribute name is
NoUpperCase(str) == \A i \in 1..Len(str) : \A k \in 1..26 : str[i] # UpperLetters[k]

\* C24: no key that starts with a letter and differs from the converted key
\* converts to the same property name; a hyphenated key and its camel form
\* are such a pair.
C24_KebabToCamelInjective ==
    (Len(kout) >= 1 /\ StartsWithLetter(kstr)) =>
        \A other \in StringsUpTo(MaxStrLen) :
            (StartsWithLetter(other) /\ other # kstr) => kebabToCamel(other) # kout[1]

\* C24 as the code has it: among keys without upper-case letters no two
\* convert to the same property name, while a hyphenated key and its camel
\* form (a-b and aB) convert to the same one.
C24_KebabToCamelInjectiveOnLowerCase ==
    /\ (Len(kout) >= 1 /\ NoUpperCase(kstr)) =>
            \A other \in StringsUpTo(MaxStrLen) :
                (NoUpperCase(other) /\ other # kstr) => kebabToCamel(other) # kout[1]
    /\ kebabToCamel(<<"a", "-", "b">>) = kebabToCamel(<<"a", "B">>)

\* C24 witness: a-b was converted to aB, which the key aB converts to as well
C24_Witness ==
    /\ kstr = <<"a", "-", "b">>
    /\ Len(kout) >= 1 /\ kout[1] = <<"a", "B">>
    /\ kebabToCamel(<<"a", "B">>) = kout[1]

\* the nodes of a forest, parents before children, one entry per node
RECURSIVE NodeList(_)
NodeList(nodes) ==
    IF Len(nodes) = 0 THEN <<>>
    ELSE (<<nodes[1]>> \o (IF nodes[1].hasChildren THEN NodeList(nodes[1].children) ELSE <<>>))
         \o NodeList(Tail(nodes))

\* the nodes of the tree render() builds from the stored snapshot
Forest == NodeList(buildTree(signals, <<>>))

\* no two nodes of the forest have the same path
PathsDistinct ==
    \A i, j \in 1..Len(Forest) : i # j => Forest[i].path # Forest[j].path

\* the diff of the empty snapshot against the stored one uses, for every
\* scalar, null and array node, the node's path string
DiffUsesNodePaths ==
    \A i \in 1..Len(Forest) :
        Forest[i].type # "object" =>
            Forest[i].path \in DOMAIN detectChanges(JObj(<<>>, <<>>), signals, 0).changedPaths

\* a key with a dot or a bracket in it
HasSeparator(name) == \E i \in 1..Len(name) : name[i] \in {".", "["}

\* C25: in the forest built from any snapshot, keys holding '.' or '['
\* included, no two nodes have the same path, and the diff uses the same
\* path strings for the same positions.
C25_PathUniqueness == PathsDistinct /\ DiffUsesNodePaths

\* C25, the part the code satisfies: when no top-level key of the snapshot
\* holds a dot or a bracket, no two nodes have the same path, and the diff
\* uses the nodes' path strings
C25_PathUniquenessPlainKeys ==
    /\ (\A i \in 1..Len(signals.k) : ~HasSeparator(signals.k[i])) => PathsDistinct
    /\ DiffUsesNodePaths

\* a cycle without key whose value is a non-array object
MultiCycle == UpdateRuns /\ key = NoKey /\ cyc'.kind = "ok" /\ IsPlainObject(heap, root)

\* C26: without a key, an entry of the evaluated object whose value is not a
\* plain object is ignored: the cycle assigns no property for that entry.
C26_NonObjectEntriesIgnored ==
    [][MultiCycle =>
        \A i \in 1..Len(heap[root[2]].vals) :
            ~IsPlainObject(heap, heap[root[2]].vals[i]) =>
                \A j \in 1..Len(cyc'.events) :
                    ~(cyc'.events[j][1] = "set" /\ cyc'.events[j][2] = heap[root[2]].keys[i])]_vars

\* C26 as the code has it: without a key, an entry of the evaluated object
\* whose value is not a plain object (a scalar or an array) is assigned like
\* any other: the cycle's i-th assignment gives the property named by the
\* i-th entry that entry's value.
C26_NonObjectEntriesAssigned ==
    [][MultiCycle =>
        \A i \in 1..Len(heap[root[2]].vals) :
            ~IsPlainObject(heap, heap[root[2]].vals[i]) =>
                /\ Len(Assignments(cyc'.events)) >= i
                /\ Assignments(cyc'.events)[i] =
                       <<"set", heap[root[2]].keys[i], heap[root[2]].vals[i]>>
                /\ props'[heap[root[2]].keys[i]] = heap[root[2]].vals[i]]_vars

\* C26 witness: a cycle without key assigned a number, the value of the
\* object's first entry, to the property the entry names
C26_Witness ==
    /\ key = NoKey
    /\ cyc.kind = "ok"
    /\ IsPlainObject(heap, cyc.value)
    /\ Len(heap[cyc.value[2]].vals) >= 1
    /\ heap[cyc.value[2]].vals[1] = Num(1)
    /\ Len(cyc.events) >= 1
    /\ cyc.events[1] = <<"set", ObjectKeys[1], Num(1)>>
    /\ ObjectKeys[1] \in DOMAIN props /\ props[ObjectKeys[1]] = Num(1)

\* C27: in the forest built from any snapshot, every node of type object or
\* array, an array inside an array and an object with sigil keys included,
\* carries a list of child nodes, and its count is the number of those nodes.
C27_TreeNodeShape ==
    \A i \in 1..Len(Forest) :
        Forest[i].type \in {"object", "array"} =>
            /\ Forest[i].hasChildren
            /\ Forest[i].count = Len(Forest[i].children)

\* C27, the part the code satisfies: every node of type object or array has
\* a count, the number of keys or items of its value
C27_ContainerNodesCounted ==
    \A i \in 1..Len(Forest) :
        Forest[i].type \in {"object", "array"} => Forest[i].count = Len(Forest[i].value.v)

\* C28: with a key, after any sequence of cycles that succeed or throw in
\* any order the bound property holds the value of the most recent cycle
\* that succeeded: while the last cycle is a successful one the property is
\* its value, and every step that does not end a successful cycle, a
\* throwing cycle included, leaves the element's properties as they were.
C28_LastSuccessfulValueWins ==
    /\ []((key # NoKey /\ cyc.kind = "ok") =>
            (kebabToCamel(key) \in DOMAIN props /\ props[kebabToCamel(key)] = cyc.value))
    /\ [][(key # NoKey /\ ~(UpdateRuns /\ cyc'.kind = "ok")) => props' = props]_vars

\* C28 witness: the effect was run again for a new value of the expression,
\* the evaluation threw, and colorConfig still holds the number of the
\* earlier successful cycle
C28_Witness ==
    /\ key = KeyColorConfig
    /\ registered /\ ~pending
    /\ cyc.kind = "threw"
    /\ root = Null
    /\ PropColorConfig \in DOMAIN props /\ props[PropColorConfig] = Num(1)

\* the names of the entries of the object the expression evaluates to
EntryNames(h, v) == {h[v[2]].keys[i] : i \in 1..Len(h[v[2]].vals)}

\* C29: without a key, a cycle writes only the properties named, letter for
\* letter, by the entries of the current object: every property the element
\* had keeps its value unless the object has an entry of that name, no
\* property is removed, and the only names added are entry names (b-c stays
\* b-c); a cycle whose value is not an object changes nothing.
C29_MultiPropertyNeverRemoves ==
    [][(UpdateRuns /\ key = NoKey) =>
        LET names == IF cyc'.kind = "ok" /\ IsPlainObject(heap, root)
                     THEN EntryNames(heap, root) ELSE {}
        IN  /\ DOMAIN props' = DOMAIN props \cup names
            /\ \A n \in DOMAIN props \ names : props'[n] = props[n]
            /\ \A j \in 1..Len(cyc'.events) : cyc'.events[j][2] \in names]_vars

\* C29 witness: after a cycle without key whose object has no entries, the
\* properties a and b-c assigned by an earlier cycle still hold its number
C29_Witness ==
    /\ key = NoKey
    /\ cyc.kind = "ok"
    /\ IsPlainObject(heap, cyc.value)
    /\ registered /\ ~pending
    /\ EntryNames(heap, cyc.value) = {}
    /\ cyc.events = <<>>
    /\ ObjectKeys[1] \in DOMAIN props /\ props[ObjectKeys[1]] = Num(1)
    /\ ObjectKeys[2] \in DOMAIN props /\ props[ObjectKeys[2]] = Num(1)

\* C30: in every state of the viewer, whatever polls, clears and toggles
\* led to it, the stored baseline is the serialisation of the stored
\* snapshot.
C30_BaselineConsistency == previousSignals = JSONstringify(signals)

\* C30 witness: a diff against an accepted snapshot has stored a new
\* snapshot, its markers are up and its clear is pending, while the user
\* has collapsed every row
C30_Witness ==
    /\ ~isFirstLoad
    /\ changedPaths # EmptyMap
    /\ Len(timers) >= 1
    /\ expandedPaths = {}
    /\ Len(JKeys(signals)) > 0
    /\ previousSignals = JSONstringify(signals)

====
